---------------------------- MODULE Spec2Model ----------------------------
(***************************************************************************)
(* Log retrieval of backend/lib/api/logs/utils.py: read_logs, the forward  *)
(* line reader and the backward byte reader read_logs_in_desc_order; the   *)
(* catalog of log files; and the two routes of routes.py that serve them.  *)
(*                                                                         *)
(* A file is a sequence of bytes.  The fixed-shape prefix of an entry      *)
(* start, "[YYYY-MM-DD HH:MM:SS] [SEVERITY ] source: ", is one token that  *)
(* carries its timestamp and its severity token; the same prefix cut      *)
(* before its ": " is the token HdrCut, and ": " the token Sep; every other  *)
(* byte is a character.  A text character carries the number of the physical line    *)
(* it was written on, so that lines with different text stay different.    *)
(* All bytes are ASCII, so decoding a byte string yields the same          *)
(* characters.                                                             *)
(***************************************************************************)
EXTENDS Integers, Sequences, FiniteSets

VARIABLES
    file,      \* the bytes of backend/logs/<log_name>.log
    exists,    \* whether that file exists
    readable,  \* whether open() of that file is permitted
    query,     \* [amount, severity]: the arguments shared by the calls
    order,     \* order[r]: the order argument of call r
    schedule,  \* "single" | "sequential" | "interleaved": how calls are run
    pc,        \* pc[r]: "idle" | "pull" | "body" | "done" | "raised"
    gen,       \* gen[r]: generator "none" | "created" | "loop" | "flush" | "ended"
    pos,       \* pos[r]: offset of the next unread byte (forward reader)
    pointer,   \* pointer[r]: pointer_location (backward reader)
    buffer,    \* buffer[r]: the backward reader's list of bytes
    cur,       \* cur[r]: the log_line the for loop is processing
    logs,      \* logs[r]: the list of LogEntry being built / returned
    err,       \* err[r]: the exception read_logs raised, or "none"
    response,  \* response[r]: what the get_logs route answers call r
    disk,      \* the .log files of the log directory, as iterdir lists them
    catalog,   \* the outcome of get_available_logs
    reads,     \* reads[r]: offsets given to log_file.read(1), in order
    pulled,    \* pulled[r]: per item the loop received: was it an entry start,
               \* and how many entries the result held when it was pulled
    templates,       \* the ids of the rows of question_templates
    questionnaires,  \* the rows of active_questionnaires
    users,           \* the ids of the rows of users
    foreign_keys,    \* whether the database enforces foreign keys
    sqlpc,           \* "idle" | "generating": inside sql_func_generate_id
    pending,         \* the row whose INSERT asked for a default id
    attempts,        \* attempts of sql_func_generate_id
    generated,       \* how many candidates the running call has generated
    random_string,   \* the last candidate
    sqlout           \* how the last operation on the database ended

database == <<templates, questionnaires, users, foreign_keys, sqlpc, pending,
              attempts, generated, random_string, sqlout>>

vars == <<file, exists, readable, query, order, schedule, pc, gen, pos,
          pointer, buffer, cur, logs, err, response, disk, catalog, reads,
          pulled, database>>

-----------------------------------------------------------------------------
(* Bounds *)

\* Physical lines per file
MaxLines == 3
\* Amounts 0..MaxAmount are queried, and one amount no file reaches
MaxAmount == 2
LargeAmount == 10

Reqs == {1, 2}

-----------------------------------------------------------------------------
(* Bytes *)

Chr(c) == [hdr |-> FALSE, ts |-> 0, sev |-> "", ch |-> c]
Txt(i, c) == [hdr |-> FALSE, ts |-> i, sev |-> "", ch |-> c]
Hdr(i, s) == [hdr |-> TRUE, ts |-> i, sev |-> s, ch |-> ""]
\* "[ts] [SEV ] src", with no ": " after it
HdrCut(i, s) == [hdr |-> FALSE, ts |-> i, sev |-> s, ch |-> "head"]
Sep == Chr(": ")

NL == Chr("\n")
CR == Chr("\r")
\* b"": what read(1) returns at end of file
EmptyBytes == Chr("")

Whitespace == {NL, CR, Chr(" "), Chr("\t")}

-----------------------------------------------------------------------------
(* utils.py, pure parts *)

SEVERITY_LEVELS ==
    [DEBUG |-> 10, INFO |-> 20, WARNING |-> 30, ERROR |-> 40, CRITICAL |-> 50]

\* [\w\s\.]: what the source group goes on with, newlines included
IsSourceChar(b) == ~b.hdr /\ b.ch \in {"m", "c", "y", "\n", "\r", " ", "\t"}

\* The positions of a ": " that ends a source begun by HdrCut and goes on
\* over source characters only
SepAfterCut(line) ==
    IF Len(line) >= 2 /\ line[1].ch = "head"
    THEN {k \in 2..Len(line) :
            /\ line[k] = Sep
            /\ \A j \in 2..(k - 1) : IsSourceChar(line[j])}
    ELSE {}

\* match(LOG_CAPTURE_PATTERN, line): the pattern is anchored at position 0
\* and its last group (.+) needs one character, which without DOTALL is any
\* character but "\n"
IsStartOfLogEntry(line) ==
    \/ /\ Len(line) >= 2
       /\ line[1].hdr
       /\ line[2] # NL
    \/ \E k \in SepAfterCut(line) : k < Len(line) /\ line[k + 1] # NL

None == [matched |-> FALSE, timestamp |-> 0, severity |-> "", source |-> "",
         message |-> <<>>]

\* match(LOG_CAPTURE_PATTERN, log_line, DOTALL): (.+) takes the whole rest,
\* newlines included
ParseLogLine(log_line) ==
    IF Len(log_line) >= 2 /\ log_line[1].hdr
    THEN [matched |-> TRUE,
          timestamp |-> log_line[1].ts,
          severity |-> log_line[1].sev,
          source |-> "mod",
          message |-> SubSeq(log_line, 2, Len(log_line))]
    ELSE IF \E k \in SepAfterCut(log_line) : k < Len(log_line)
    THEN LET k == CHOOSE j \in SepAfterCut(log_line) : TRUE
         IN  [matched |-> TRUE,
              timestamp |-> log_line[1].ts,
              severity |-> log_line[1].sev,
              source |-> IF k = 2 THEN "mod" ELSE "mod+",
              message |-> SubSeq(log_line, k + 1, Len(log_line))]
    ELSE None

\* log_line.strip() == ""
IsBlank(log_line) == \A i \in 1..Len(log_line) : log_line[i] \in Whitespace

Reverse(s) == [i \in 1..Len(s) |-> s[Len(s) + 1 - i]]

NotEmptyBytes(b) == b # EmptyBytes

\* b"".join(buffer[::-1]).decode("utf-8")
JoinReversed(buf) == SelectSeq(Reverse(buf), NotEmptyBytes)

\* line.replace("\r", "\n")
ReplaceCR(line) == [i \in 1..Len(line) |-> IF line[i] = CR THEN NL ELSE line[i]]

\* log_file.read(1) after log_file.seek(p) on a file opened "rb"
ReadByte(f, p) == IF p < Len(f) THEN f[p + 1] ELSE EmptyBytes

\* The end of the text line that starts at offset p of a file opened "r"
\* (universal newlines): the index of its terminator's last byte, or Len(f)
LineTerminators(f, p) == {i \in (p + 1)..Len(f) : f[i] \in {NL, CR}}

FirstTerminator(f, p) ==
    CHOOSE i \in LineTerminators(f, p) : \A j \in LineTerminators(f, p) : i <= j

\* One item of "for log_line in log_file": [line, next], "\r\n" and "\r"
\* handed over as "\n"
TextReadLine(f, p) ==
    IF LineTerminators(f, p) = {}
    THEN [line |-> SubSeq(f, p + 1, Len(f)), next |-> Len(f)]
    ELSE LET t == FirstTerminator(f, p)
             crlf == f[t] = CR /\ t < Len(f) /\ f[t + 1] = NL
         IN  [line |-> Append(SubSeq(f, p + 1, t - 1), NL),
              next |-> IF crlf THEN t + 1 ELSE t]

\* Mutant: the loop runs once more, at offset -1
DescLoopCondOffByOne(p) == p >= -1

\* while pointer_location >= 0
DescLoopCond(p) == p >= 0

\* Mutant: every other byte skipped
NextOffsetByTwo(p) == p - 2

\* pointer_location -= 1
NextOffset(p) == p - 1

\* Mutant: the comparison turned round
SeverityGateFlipped(log_level, severity) ==
    SEVERITY_LEVELS[log_level] >= SEVERITY_LEVELS[severity]

\* SEVERITY_LEVELS[log_level] <= severity_level
SeverityGate(log_level, severity) ==
    SEVERITY_LEVELS[log_level] <= SEVERITY_LEVELS[severity]

\* Mutant: the cap tested one entry late
UnderCapOffByOne(ls, amount) == ~(Len(ls) > amount)

\* not len(logs) >= amount
UnderCap(ls, amount) == ~(Len(ls) >= amount)

LogEntry(p) ==
    [timestamp |-> p.timestamp, severity |-> p.severity, source |-> p.source,
     message |-> p.message]

\* Mutant: the entry put at the front of the list
PrependEntry(ls, p) == <<LogEntry(p)>> \o ls

\* logs.append(LogEntry(...))
AppendEntry(ls, p) == Append(ls, LogEntry(p))

\* previous_log.message += log_line, previous_log being logs[-1]
AppendToPrevious(ls, log_line) ==
    [ls EXCEPT ![Len(ls)].message = @ \o log_line]

-----------------------------------------------------------------------------
(* sql/models.py and sql/crud.py, pure parts *)

\* "if attempts >= 5"
MaxAttempts == 5

NoRow == [table |-> "none", student_id |-> "", teacher_id |-> ""]

NoOutcome == [status |-> "none", id |-> ""]

SqlOutcome(status, id) == [status |-> status, id |-> id]

\* select(exists().where(QuestionTemplate.id == random_string)).scalar()
ExistsCriteria(random_string_, rows) == random_string_ \in rows

\* ActiveQuestionnaire(student_id=..., teacher_id=...), its id being id
ActiveQuestionnaire(id, student_id, teacher_id) ==
    [id |-> id, student_id |-> student_id, teacher_id |-> teacher_id]

\* session.query(ActiveQuestionnaire).filter_by(student_id=...).count()
StudentQuestionnaires(rows, user_id) ==
    Cardinality({q \in rows : q.student_id = user_id})

\* session.query(ActiveQuestionnaire).filter_by(teacher_id=...).count()
TeacherQuestionnaires(rows, user_id) ==
    Cardinality({q \in rows : q.teacher_id = user_id})

\* The rows of `rows` that refer to a user who is not in `us`
Dangling(rows, us) ==
    {q \in rows : q.student_id \notin us \/ q.teacher_id \notin us}

\* What the student half of delete_user_if_no_questionnaires does to the
\* users, `rows` being the questionnaires left after the DELETE
AfterStudentCheck(rows, us, target) ==
    IF StudentQuestionnaires(rows, target.student_id) # 0
    THEN [users |-> us, status |-> "ok"]
    ELSE IF target.student_id \notin us
    THEN [users |-> us, status |-> "NoResultFound"]
    ELSE [users |-> us \ {target.student_id}, status |-> "ok"]

\* The same for the teacher
AfterTeacherCheck(rows, us, target) ==
    IF TeacherQuestionnaires(rows, target.teacher_id) # 0
    THEN [users |-> us, status |-> "ok"]
    ELSE IF target.teacher_id \notin us
    THEN [users |-> us, status |-> "NoResultFound"]
    ELSE [users |-> us \ {target.teacher_id}, status |-> "ok"]

\* delete_user_if_no_questionnaires: NoResultFound of the student's .one()
\* skips the teacher's half; what was deleted before it stays deleted, its
\* DELETE having been flushed to the connection of the caller
DeleteUserIfNoQuestionnaires(rows, us, target) ==
    IF AfterStudentCheck(rows, us, target).status # "ok"
    THEN AfterStudentCheck(rows, us, target)
    ELSE AfterTeacherCheck(rows, AfterStudentCheck(rows, us, target).users,
                           target)

-----------------------------------------------------------------------------
(* utils.py, the catalog of log files *)

\* sum(1 for _ in log_file) from offset p on, the file opened "r"
RECURSIVE CountLines(_, _)
CountLines(f, p) ==
    IF p >= Len(f) THEN 0 ELSE 1 + CountLines(f, TextReadLine(f, p).next)

\* Mutant: the last line not counted
GetAmountOfLogsShort(f) == IF f = <<>> THEN 0 ELSE CountLines(f, 0) - 1

\* get_amount_of_logs of a file that can be opened
GetAmountOfLogs(f) == CountLines(f, 0)

LogFile(name, amount) == [name |-> name, amount |-> amount]

\* create_log_file_object(log_file), log_file being an entry of the directory
\* [name, bytes, error]: error is what open() raises when the file is counted
CreateLogFileObject(log_file) ==
    LogFile(log_file.name, GetAmountOfLogs(log_file.bytes))

\* The for loop of create_log_files_object from entry i on: an exception of
\* get_amount_of_logs is logged there, raised again and caught nowhere
RECURSIVE CreateLogFilesFrom(_, _, _)
CreateLogFilesFrom(log_files, i, log_files_with_amount) ==
    IF i > Len(log_files)
    THEN [status |-> "returned", log_files |-> log_files_with_amount]
    ELSE IF log_files[i].error # "none"
    THEN [status |-> log_files[i].error, log_files |-> <<>>]
    ELSE CreateLogFilesFrom(log_files, i + 1,
             Append(log_files_with_amount, CreateLogFileObject(log_files[i])))

CreateLogFilesObject(dir) == CreateLogFilesFrom(dir, 1, <<>>)

\* get_available_logs has not been called
NotAsked == [status |-> "none", log_files |-> <<>>]

-----------------------------------------------------------------------------
(* routes.py, get_logs: what the route answers *)

NotFoundDetail == "Log file not found"

\* The detail of the 500 answer, one literal of the route
ServerErrorDetail ==
    "An error occurred while trying to read the logs. Please try again later. If the problem persists, contact the system administrator. If you are the system administrator, check the logs on the server for more information."

NoResponse == [status |-> 0, detail |-> "", body |-> <<>>]

HTTPException(status_code, detail) ==
    [status |-> status_code, detail |-> detail, body |-> <<>>]

\* return read_logs(...): the list is the body of a 200 answer
Ok(ls) == [status |-> 200, detail |-> "", body |-> ls]

\* Mutant: no clause of its own for FileNotFoundError
ExceptAllAlike(e) == HTTPException(500, ServerErrorDetail)

\* Mutant: the text of the exception put into the detail
ExceptLeaking(e) ==
    IF e = "FileNotFoundError"
    THEN HTTPException(404, NotFoundDetail)
    ELSE HTTPException(500, e)

\* except FileNotFoundError: ... / except Exception as e: ...
Except(e) ==
    IF e = "FileNotFoundError"
    THEN HTTPException(404, NotFoundDetail)
    ELSE HTTPException(500, ServerErrorDetail)

-----------------------------------------------------------------------------
(* The files and queries the calls are run on *)

Severities == {"DEBUG", "INFO", "WARNING", "ERROR", "CRITICAL"}
Orders == {"asc", "desc"}

\* Severity tokens written in the files; TRACE is a token \w+ accepts that
\* SEVERITY_LEVELS does not hold
FileSeverities == {"INFO", "ERROR", "TRACE"}
LineKinds == FileSeverities \cup {"cont", "blank"}
EolStyles == {"LF", "CRLF"}

\* Physical line i without its terminator: an entry start with a one
\* character message, a continuation line, or an empty line
LineText(k, i) ==
    IF k \in FileSeverities THEN <<Hdr(i, k), Txt(i, "m")>>
    ELSE IF k = "cont" THEN <<Txt(i, "c")>>
    ELSE IF k = "head" THEN <<HdrCut(i, "INFO")>>
    ELSE IF k = "tail" THEN <<Sep, Txt(i, "y")>>
    ELSE <<>>

Eol(style) == IF style = "CRLF" THEN <<CR, NL>> ELSE <<NL>>

RECURSIVE FileFrom(_, _, _, _)
FileFrom(kinds, i, style, final) ==
    IF i > Len(kinds) THEN <<>>
    ELSE LineText(kinds[i], i)
         \o (IF i < Len(kinds) \/ final THEN Eol(style) ELSE <<>>)
         \o FileFrom(kinds, i + 1, style, final)

FileOf(kinds, style, final) == FileFrom(kinds, 1, style, final)

KindSeqs == UNION {[1..n -> LineKinds] : n \in 0..MaxLines}

\* Every line terminated, in either style, or the last line left unterminated
Files ==
    {FileOf(k, s, TRUE) : k \in KindSeqs, s \in EolStyles}
        \cup {FileOf(k, "LF", FALSE) : k \in KindSeqs}

Amounts == (0..MaxAmount) \cup {LargeAmount}

Queries == [amount : Amounts, severity : Severities]

-----------------------------------------------------------------------------
(* State *)

Finished(r) == pc[r] \in {"done", "raised"}

\* Whether call r may start: alone, after the call before it, or at any time
CanStart(r) ==
    IF schedule = "single" THEN r = 1
    ELSE IF schedule = "sequential" THEN \A q \in Reqs : q < r => Finished(q)
    ELSE schedule = "interleaved"

\* The calls start on one of `files`, or on a file that is missing or may
\* not be opened
\* No operation on the database has been asked for
NoOperation ==
    /\ sqlpc = "idle"
    /\ pending = NoRow
    /\ attempts = 0
    /\ generated = 0
    /\ random_string = ""
    /\ sqlout = NoOutcome

NoDatabase ==
    /\ templates = {}
    /\ questionnaires = {}
    /\ users = {}
    /\ foreign_keys = FALSE
    /\ NoOperation

NoCalls ==
    /\ pc = [r \in Reqs |-> "idle"]
    /\ gen = [r \in Reqs |-> "none"]
    /\ pos = [r \in Reqs |-> 0]
    /\ pointer = [r \in Reqs |-> 0]
    /\ buffer = [r \in Reqs |-> <<>>]
    /\ cur = [r \in Reqs |-> <<>>]
    /\ logs = [r \in Reqs |-> <<>>]
    /\ err = [r \in Reqs |-> "none"]
    /\ response = [r \in Reqs |-> NoResponse]
    /\ reads = [r \in Reqs |-> <<>>]
    /\ pulled = [r \in Reqs |-> <<>>]

InitFrom(sched, orders, files) ==
    /\ schedule = sched
    /\ exists \in BOOLEAN
    /\ readable \in (IF exists THEN BOOLEAN ELSE {FALSE})
    /\ file \in (IF exists /\ readable THEN files ELSE {<<>>})
    /\ query \in Queries
    /\ order \in orders
    /\ NoCalls
    /\ disk = <<>>
    /\ catalog = NotAsked
    /\ NoDatabase

InitWith(sched, orders) == InitFrom(sched, orders, Files)

Init == InitWith("single", {[r \in Reqs |-> o] : o \in Orders})

-----------------------------------------------------------------------------
(* read_logs *)

\* Mutant: the list of an earlier call kept (a list shared between calls)
StaleLogs == logs[1]

\* logs: List = []
NewLogs == <<>>

\* read_logs entered: locals bound, the generator created but not started
Call(r) ==
    /\ pc[r] = "idle"
    /\ CanStart(r)
    /\ pc' = [pc EXCEPT ![r] = "pull"]
    /\ gen' = [gen EXCEPT ![r] = "created"]
    /\ logs' = [logs EXCEPT ![r] = NewLogs]
    /\ UNCHANGED <<file, exists, readable, query, order, schedule, disk,
                   catalog, database, pos, pointer, buffer,
                   cur, err, response, reads, pulled>>

\* What open() raises when it fails
OpenError == IF ~exists THEN "FileNotFoundError" ELSE "PermissionError"

\* Exception e leaves read_logs and reaches the except clauses of get_logs
Raised(r, e) ==
    /\ pc' = [pc EXCEPT ![r] = "raised"]
    /\ err' = [err EXCEPT ![r] = e]
    /\ response' = [response EXCEPT ![r] = Except(e)]

\* The generator's first resumption: open(...) of either reader; its
\* failure is raised again by the forward reader (after logging) and passes
\* through the backward reader, and leaves read_logs
Open(r) ==
    /\ pc[r] = "pull"
    /\ gen[r] = "created"
    /\ IF exists /\ readable
       THEN /\ gen' = [gen EXCEPT ![r] = "loop"]
            /\ pos' = [pos EXCEPT ![r] = 0]
            /\ pointer' = [pointer EXCEPT ![r] = Len(file)]
            /\ buffer' = [buffer EXCEPT ![r] = <<>>]
            /\ UNCHANGED <<pc, err, response>>
       ELSE /\ gen' = [gen EXCEPT ![r] = "ended"]
            /\ Raised(r, OpenError)
            /\ UNCHANGED <<pos, pointer, buffer>>
    /\ UNCHANGED <<file, exists, readable, query, order, schedule, disk,
                   catalog, database, cur, logs, reads,
                   pulled>>

\* What the loop notes of an item it receives
Item(r, line) ==
    [start |-> ParseLogLine(line).matched, held |-> Len(logs[r])]

\* Mutant: log_line is one variable that all calls share
YieldShared(r, line) ==
    /\ cur' = [q \in Reqs |-> line]
    /\ pulled' = [pulled EXCEPT ![r] = Append(@, Item(r, line))]
    /\ pc' = [pc EXCEPT ![r] = "body"]
    /\ UNCHANGED response

\* The generator hands `line` to the for loop
Yield(r, line) ==
    /\ cur' = [cur EXCEPT ![r] = line]
    /\ pulled' = [pulled EXCEPT ![r] = Append(@, Item(r, line))]
    /\ pc' = [pc EXCEPT ![r] = "body"]
    /\ UNCHANGED response

\* "return logs", which get_logs hands on
Return(r) ==
    /\ pc' = [pc EXCEPT ![r] = "done"]
    /\ response' = [response EXCEPT ![r] = Ok(logs[r])]

\* The generator returns: its with block closes the file, the for loop ends
\* and read_logs returns logs
Exhausted(r) ==
    /\ gen' = [gen EXCEPT ![r] = "ended"]
    /\ Return(r)
    /\ UNCHANGED <<cur, pulled>>

\* order == "asc": the next line of the file, or its end
AscNext(r) ==
    /\ pc[r] = "pull"
    /\ gen[r] = "loop"
    /\ order[r] = "asc"
    /\ IF pos[r] < Len(file)
       THEN LET got == TextReadLine(file, pos[r])
            IN  /\ pos' = [pos EXCEPT ![r] = got.next]
                /\ Yield(r, got.line)
                /\ UNCHANGED gen
       ELSE /\ Exhausted(r)
            /\ UNCHANGED pos
    /\ UNCHANGED <<file, exists, readable, query, order, schedule, disk,
                   catalog, database, pointer, buffer, logs,
                   err, reads>>

\* order == "desc": one iteration of the while loop of
\* read_logs_in_desc_order.  When it yields, the statements that follow the
\* yield on resumption (buffer = [], pointer_location -= 1) are taken here.
DescStep(r) ==
    /\ pc[r] = "pull"
    /\ gen[r] = "loop"
    /\ order[r] = "desc"
    /\ DescLoopCond(pointer[r])
    /\ IF pointer[r] < 0
       THEN \* log_file.seek of a negative offset
            /\ Raised(r, "OSError")
            /\ gen' = [gen EXCEPT ![r] = "ended"]
            /\ UNCHANGED <<pointer, buffer, cur, pulled, reads>>
       ELSE LET new_byte == ReadByte(file, pointer[r])
                line == JoinReversed(buffer[r])
            IN  /\ reads' = [reads EXCEPT ![r] = Append(@, pointer[r])]
                /\ pointer' = [pointer EXCEPT ![r] = NextOffset(@)]
                /\ UNCHANGED <<gen, err>>
                /\ IF new_byte = NL /\ buffer[r] # <<>>
                   THEN IF IsStartOfLogEntry(line)
                        THEN /\ Yield(r, ReplaceCR(line))
                             /\ buffer' = [buffer EXCEPT ![r] = <<>>]
                        ELSE UNCHANGED <<buffer, cur, pulled, pc, response>>
                   ELSE /\ buffer' = [buffer EXCEPT ![r] = Append(@, new_byte)]
                        /\ UNCHANGED <<cur, pulled, pc, response>>
    /\ UNCHANGED <<file, exists, readable, query, order, schedule, disk,
                   catalog, database, pos, logs>>

\* order == "desc": the while loop has ended; "if buffer: yield ..."
DescFlush(r) ==
    /\ pc[r] = "pull"
    /\ gen[r] = "loop"
    /\ order[r] = "desc"
    /\ ~DescLoopCond(pointer[r])
    /\ IF buffer[r] # <<>>
       THEN /\ Yield(r, JoinReversed(buffer[r]))
            /\ gen' = [gen EXCEPT ![r] = "flush"]
       ELSE Exhausted(r)
    /\ UNCHANGED <<file, exists, readable, query, order, schedule, disk,
                   catalog, database, pos, pointer, buffer,
                   logs, err, reads>>

\* order == "desc": resumed after the final yield, the generator returns
DescEnd(r) ==
    /\ pc[r] = "pull"
    /\ gen[r] = "flush"
    /\ Exhausted(r)
    /\ UNCHANGED <<file, exists, readable, query, order, schedule, disk,
                   catalog, database, pos, pointer, buffer,
                   logs, err, reads>>

\* "continue": back to the for statement, which resumes the generator
Continue(r) ==
    /\ pc' = [pc EXCEPT ![r] = "pull"]
    /\ UNCHANGED <<gen, err, response>>

\* "break", then "return logs": the suspended generator is finalized when
\* read_logs drops it, which closes the file
Break(r) ==
    /\ Return(r)
    /\ gen' = [gen EXCEPT ![r] = "ended"]
    /\ UNCHANGED err

\* Mutant: the entry start is passed over and the loop goes on
RaiseSkipped(r, e) ==
    /\ pc' = [pc EXCEPT ![r] = "pull"]
    /\ UNCHANGED <<gen, err, response>>

\* An exception raised in the loop body leaves read_logs.  Its traceback
\* holds the frame of read_logs, and with it the suspended generator, which
\* is therefore not finalized: it stays inside its with block
Raise(r, e) ==
    /\ Raised(r, e)
    /\ UNCHANGED gen

\* Mutant: the loop goes on at the cap
AtCapContinue(r) == Continue(r)

\* What ends the loop body for an entry start met at the cap: else: break
AtCap(r) == Break(r)

\* The body of the for loop, for the item in cur[r]
Body(r) ==
    /\ pc[r] = "body"
    /\ LET log_line == cur[r]
           parsed == ParseLogLine(log_line)
       IN  IF IsBlank(log_line)
           THEN Continue(r) /\ UNCHANGED logs
           ELSE IF ~parsed.matched
           THEN /\ Continue(r)
                /\ IF ~(Len(logs[r]) > 0)
                   THEN UNCHANGED logs
                   ELSE IF ~SeverityGate(logs[r][Len(logs[r])].severity,
                                         query.severity)
                   THEN UNCHANGED logs
                   ELSE logs' = [logs EXCEPT
                                   ![r] = AppendToPrevious(@, log_line)]
           ELSE IF UnderCap(logs[r], query.amount)
           THEN IF parsed.severity \notin DOMAIN SEVERITY_LEVELS
                THEN Raise(r, "KeyError") /\ UNCHANGED logs
                ELSE /\ Continue(r)
                     /\ IF SeverityGate(parsed.severity, query.severity)
                        THEN logs' = [logs EXCEPT ![r] = AppendEntry(@, parsed)]
                        ELSE UNCHANGED logs
           ELSE AtCap(r) /\ UNCHANGED logs
    /\ UNCHANGED <<file, exists, readable, query, order, schedule, disk,
                   catalog, database, pos, pointer, buffer,
                   cur, reads, pulled>>

Next ==
    \E r \in Reqs :
        \/ Call(r)
        \/ Open(r)
        \/ AscNext(r)
        \/ DescStep(r)
        \/ DescFlush(r)
        \/ DescEnd(r)
        \/ Body(r)

Spec == Init /\ [][Next]_vars

\* Two calls with the same arguments, the second after the first has ended
InitRepeat == InitWith("sequential", {[r \in Reqs |-> o] : o \in Orders})

SpecRepeat == InitRepeat /\ [][Next]_vars

\* The same amount and severity asked in order asc, then in order desc
InitOrders ==
    InitWith("sequential", {[r \in Reqs |-> IF r = 1 THEN "asc" ELSE "desc"]})

SpecOrders == InitOrders /\ [][Next]_vars

\* A single call that is never suspended for ever: read_logs keeps pulling
\* from its generator until it returns or raises.  The files hold entries
\* of one level, continuation lines and blank lines, in either style
FairFiles ==
    {FileOf(k, s, TRUE) :
        k \in UNION {[1..n -> {"INFO", "cont", "blank"}] : n \in 0..MaxLines},
        s \in EolStyles}

InitFair == InitFrom("single", {[r \in Reqs |-> o] : o \in Orders}, FairFiles)

SpecFair == InitFair /\ [][Next]_vars /\ WF_vars(Next)

\* Files in which a line may be an entry start cut before its ": " ("head")
\* and a line may begin with ": " ("tail")
ChunkKinds == {"INFO", "cont", "head", "tail"}

ChunkFiles ==
    {FileOf(k, "LF", TRUE) :
        k \in UNION {[1..n -> ChunkKinds] : n \in 0..MaxLines}}

InitChunks ==
    InitFrom("single", {[r \in Reqs |-> o] : o \in Orders}, ChunkFiles)

SpecChunks == InitChunks /\ [][Next]_vars

\* Two calls run at once, their steps interleaved in every way, on the
\* files of two lines
InterleavedFiles ==
    {FileOf(k, s, TRUE) : k \in [1..2 -> LineKinds], s \in EolStyles}

InitInterleaved == InitFrom("interleaved", [Reqs -> Orders], InterleavedFiles)

SpecInterleaved == InitInterleaved /\ [][Next]_vars

-----------------------------------------------------------------------------
(* read_logs run from call to exit with nothing else running *)

\* The items of "for log_line in log_file" from offset p on
RECURSIVE TextLines(_, _)
TextLines(f, p) ==
    IF p >= Len(f) THEN <<>>
    ELSE <<TextReadLine(f, p).line>> \o TextLines(f, TextReadLine(f, p).next)

\* The items of read_logs_in_desc_order from pointer_location p on, the
\* buffer being buf
RECURSIVE DescChunks(_, _, _)
DescChunks(f, p, buf) ==
    IF ~DescLoopCond(p)
    THEN IF buf # <<>> THEN <<JoinReversed(buf)>> ELSE <<>>
    ELSE IF ReadByte(f, p) = NL /\ buf # <<>>
    THEN IF IsStartOfLogEntry(JoinReversed(buf))
         THEN <<ReplaceCR(JoinReversed(buf))>> \o DescChunks(f, NextOffset(p), <<>>)
         ELSE DescChunks(f, NextOffset(p), buf)
    ELSE DescChunks(f, NextOffset(p), Append(buf, ReadByte(f, p)))

\* read_logs_as_generator
Generated(f, o) ==
    IF o = "asc" THEN TextLines(f, 0) ELSE DescChunks(f, Len(f), <<>>)

Outcome(p, e, ls) ==
    [pc |-> p, err |-> e, logs |-> ls,
     response |-> IF p = "done" THEN Ok(ls) ELSE Except(e)]

\* The for loop of read_logs from item i on, the list being ls
RECURSIVE Consume(_, _, _, _)
Consume(items, i, ls, q) ==
    IF i > Len(items) THEN Outcome("done", "none", ls)
    ELSE IF IsBlank(items[i]) THEN Consume(items, i + 1, ls, q)
    ELSE IF ~ParseLogLine(items[i]).matched
    THEN Consume(items, i + 1,
                 IF Len(ls) > 0 /\ SeverityGate(ls[Len(ls)].severity, q.severity)
                 THEN AppendToPrevious(ls, items[i]) ELSE ls, q)
    ELSE IF ~UnderCap(ls, q.amount) THEN Outcome("done", "none", ls)
    ELSE IF ParseLogLine(items[i]).severity \notin DOMAIN SEVERITY_LEVELS
    THEN Outcome("raised", "KeyError", ls)
    ELSE Consume(items, i + 1,
                 IF SeverityGate(ParseLogLine(items[i]).severity, q.severity)
                 THEN AppendEntry(ls, ParseLogLine(items[i])) ELSE ls, q)

\* What call r ends with when it runs alone
ReadLogsAlone(r) ==
    IF exists /\ readable
    THEN Consume(Generated(file, order[r]), 1, <<>>, query)
    ELSE Outcome("raised", OpenError, <<>>)

\* What call r has ended with
Ended(r) == Outcome(pc[r], err[r], logs[r])

-----------------------------------------------------------------------------
(* Operations on the database *)

Ids == {"a", "b"}
UserIds == {"u", "v", "w"}

\* A flush is about to INSERT `row`, whose id column takes its default
Flush(row) ==
    /\ sqlpc = "idle"
    /\ sqlpc' = "generating"
    /\ pending' = row
    /\ attempts' = 0
    /\ generated' = 0
    /\ random_string' = ""
    /\ sqlout' = NoOutcome
    /\ UNCHANGED <<templates, questionnaires, users, foreign_keys>>

\* add_template, up to the INSERT of the new QuestionTemplate
AddTemplate ==
    /\ Flush([table |-> "question_templates", student_id |-> "",
              teacher_id |-> ""])
    /\ UNCHANGED <<file, exists, readable, query, order, schedule, disk,
                   catalog, pc, gen, pos, pointer, buffer, cur, logs, err,
                   response, reads, pulled>>

\* add_active_questionnaire, up to the INSERT of the new ActiveQuestionnaire
AddActiveQuestionnaire(student, teacher) ==
    /\ student # teacher
    /\ Flush([table |-> "active_questionnaires", student_id |-> student,
              teacher_id |-> teacher])
    /\ UNCHANGED <<file, exists, readable, query, order, schedule, disk,
                   catalog, pc, gen, pos, pointer, buffer, cur, logs, err,
                   response, reads, pulled>>

\* sql_func_generate_id has returned id: the INSERT is made.  A primary key
\* that the table already holds fails it and nothing of the operation is
\* kept; else the row is added, and with an ActiveQuestionnaire the users
\* that the users table does not hold
Insert(id) ==
    /\ sqlpc' = "idle"
    /\ UNCHANGED <<attempts, pending, foreign_keys>>
    /\ IF pending.table = "question_templates"
       THEN /\ templates' = templates \cup {id}
            /\ sqlout' = SqlOutcome("added", id)
            /\ UNCHANGED <<questionnaires, users>>
       ELSE IF \E q \in questionnaires : q.id = id
       THEN /\ sqlout' = SqlOutcome("IntegrityError", id)
            /\ UNCHANGED <<templates, questionnaires, users>>
       ELSE /\ questionnaires' = questionnaires \cup
                   {ActiveQuestionnaire(id, pending.student_id,
                                        pending.teacher_id)}
            /\ users' = users \cup {pending.student_id, pending.teacher_id}
            /\ sqlout' = SqlOutcome("added", id)
            /\ UNCHANGED templates

\* One iteration of the while loop of sql_func_generate_id, c being what
\* the random choices give
GenerateId ==
    /\ sqlpc = "generating"
    /\ \E c \in Ids :
          /\ random_string' = c
          /\ generated' = generated + 1
          /\ IF ExistsCriteria(c, templates) = FALSE
             THEN Insert(c)
             ELSE IF attempts >= MaxAttempts
             THEN /\ sqlpc' = "idle"
                  /\ sqlout' = SqlOutcome("ValueError", "")
                  /\ UNCHANGED <<templates, questionnaires, users,
                                 foreign_keys, pending, attempts>>
             ELSE /\ attempts' = attempts + 1
                  /\ UNCHANGED <<templates, questionnaires, users,
                                 foreign_keys, pending, sqlpc, sqlout>>
    /\ UNCHANGED <<file, exists, readable, query, order, schedule, disk,
                   catalog, pc, gen, pos, pointer, buffer, cur, logs, err,
                   response, reads, pulled>>

\* delete_active_questionnaire with the after_delete listener
\* delete_user_if_no_questionnaires.  A database that enforces foreign keys
\* refuses the DELETE of a user whom a remaining row refers to, which fails
\* the whole operation
DeleteActiveQuestionnaire(questionnaire_id) ==
    /\ sqlpc = "idle"
    /\ IF ~\E q \in questionnaires : q.id = questionnaire_id
       THEN /\ sqlout' = SqlOutcome("QuestionnaireNotFound", questionnaire_id)
            /\ UNCHANGED <<questionnaires, users>>
       ELSE LET target == CHOOSE q \in questionnaires : q.id = questionnaire_id
                rest == questionnaires \ {target}
                after == DeleteUserIfNoQuestionnaires(rest, users, target)
            IN  IF foreign_keys /\ Dangling(rest, after.users) # {}
                THEN /\ sqlout' = SqlOutcome("IntegrityError", questionnaire_id)
                     /\ UNCHANGED <<questionnaires, users>>
                ELSE /\ questionnaires' = rest
                     /\ users' = after.users
                     /\ sqlout' = SqlOutcome("deleted", questionnaire_id)
    /\ UNCHANGED <<templates, foreign_keys, sqlpc, pending, attempts,
                   generated, random_string>>
    /\ UNCHANGED <<file, exists, readable, query, order, schedule, disk,
                   catalog, pc, gen, pos, pointer, buffer, cur, logs, err,
                   response, reads, pulled>>

InitSql ==
    /\ schedule = "database"
    /\ exists = FALSE
    /\ readable = FALSE
    /\ file = <<>>
    /\ query = [amount |-> 0, severity |-> "INFO"]
    /\ order = [r \in Reqs |-> "asc"]
    /\ NoCalls
    /\ disk = <<>>
    /\ catalog = NotAsked
    /\ templates \in SUBSET Ids
    /\ questionnaires = {}
    /\ users = {}
    /\ foreign_keys \in BOOLEAN
    /\ NoOperation

NextSql ==
    \/ AddTemplate
    \/ \E student, teacher \in UserIds : AddActiveQuestionnaire(student, teacher)
    \/ GenerateId
    \/ \E questionnaire_id \in Ids : DeleteActiveQuestionnaire(questionnaire_id)

SpecSql == InitSql /\ [][NextSql]_vars

-----------------------------------------------------------------------------
(* get_available_logs *)

LogNames == <<"app", "error">>

\* What open() raises when a listed file is counted: nothing, or the file
\* has been removed or made unreadable since the directory was listed
CountErrors == {"none", "FileNotFoundError", "PermissionError"}

CatalogKindSeqs == UNION {[1..n -> {"INFO", "cont"}] : n \in 0..MaxLines}

CatalogFiles == {FileOf(k, "LF", TRUE) : k \in CatalogKindSeqs}

\* The directories: up to Len(LogNames) .log files
Dirs ==
    UNION {{d \in [1..n -> [name : {LogNames[i] : i \in 1..n},
                             bytes : CatalogFiles, error : CountErrors]] :
               \A i \in 1..n : d[i].name = LogNames[i]} :
           n \in 0..Len(LogNames)}

InitCatalog ==
    /\ schedule = "catalog"
    /\ exists = FALSE
    /\ readable = FALSE
    /\ file = <<>>
    /\ query = [amount |-> 0, severity |-> "INFO"]
    /\ order = [r \in Reqs |-> "asc"]
    /\ NoCalls
    /\ disk \in Dirs
    /\ catalog = NotAsked
    /\ NoDatabase

\* GET of the catalog: return create_log_files_object(dir=...)
GetAvailableLogs ==
    /\ catalog = NotAsked
    /\ catalog' = CreateLogFilesObject(disk)
    /\ UNCHANGED <<file, exists, readable, query, order, schedule, disk,
                   database, pc, gen, pos, pointer, buffer, cur, logs, err, response, reads,
                   pulled>>

NextCatalog == GetAvailableLogs

SpecCatalog == InitCatalog /\ [][NextCatalog]_vars

-----------------------------------------------------------------------------
(* What the claims speak of, read off the file and the query *)

Min(a, b) == IF a <= b THEN a ELSE b

\* The gate as stated: numeric level of the entry <= numeric level asked
\* for, DEBUG < INFO < WARNING < ERROR < CRITICAL
LevelOrder == <<"DEBUG", "INFO", "WARNING", "ERROR", "CRITICAL">>

Rank(s) == CHOOSE i \in 1..Len(LevelOrder) : LevelOrder[i] = s

Passes(sev) == sev \in Severities /\ Rank(sev) <= Rank(query.severity)

IsPassingStart(b) == b.hdr /\ Passes(b.sev)

\* Entry-start lines of the file that pass the gate, oldest first
PassingStarts == SelectSeq(file, IsPassingStart)

Key(e) == [timestamp |-> e.timestamp, severity |-> e.severity,
           source |-> e.source]

StartKey(b) == [timestamp |-> b.ts, severity |-> b.sev, source |-> "mod"]

Returned(r) == pc[r] = "done"

-----------------------------------------------------------------------------
-----------------------------------------------------------------------------
\* The loop body is about to handle an entry-start line while the result
\* is under the cap, the line's severity being one of the five levels
GateCase(r) ==
    /\ pc[r] = "body"
    /\ ParseLogLine(cur[r]).matched
    /\ ParseLogLine(cur[r]).severity \in Severities
    /\ Len(logs[r]) < query.amount

GateStep(r) ==
    (GateCase(r) /\ pc'[r] # "body") =>
        IF Passes(ParseLogLine(cur[r]).severity)
        THEN /\ Len(logs'[r]) = Len(logs[r]) + 1
             /\ SubSeq(logs'[r], 1, Len(logs[r])) = logs[r]
             /\ Key(logs'[r][Len(logs'[r])]) = StartKey(cur[r][1])
        ELSE logs'[r] = logs[r]

ResultWithinLevel ==
    \A r \in Reqs : \A i \in 1..Len(logs[r]) : Passes(logs[r][i].severity)

\* Scenario A: an INFO entry, then an ERROR entry
ScenarioFile == FileOf(<<"INFO", "ERROR">>, "LF", TRUE)

ScenarioA ==
    (/\ file = ScenarioFile
     /\ query = [amount |-> LargeAmount, severity |-> "INFO"]
     /\ order[1] = "asc"
     /\ Returned(1))
        => /\ Len(logs[1]) = 1
           /\ Key(logs[1][1]) = StartKey(Hdr(1, "INFO"))

\* C2 - Severity gate: an entry-start line handled under the cap is
\* appended iff its level is <= the level asked for; so every entry of the
\* result has a level <= the level asked for, and scenario A (INFO entry
\* then ERROR entry, the large amount, severity INFO, asc) returns the INFO
\* entry alone.
SeverityGateLaw ==
    /\ [](ResultWithinLevel /\ ScenarioA)
    /\ [][\A r \in Reqs : GateStep(r)]_vars

\* Scenario A has returned its single INFO entry, the ERROR line having
\* been handled under the cap
SeverityGateWitness ==
    /\ file = ScenarioFile
    /\ query = [amount |-> LargeAmount, severity |-> "INFO"]
    /\ order[1] = "asc"
    /\ Returned(1)
    /\ Len(pulled[1]) = 2
    /\ pulled[1][2] = [start |-> TRUE, held |-> 1]
    /\ Len(logs[1]) = 1
    /\ logs[1][1].severity = "INFO"

-----------------------------------------------------------------------------
Keys(ls) == [i \in 1..Len(ls) |-> Key(ls[i])]

StartKeys(bs) == [i \in 1..Len(bs) |-> StartKey(bs[i])]

FirstN(sq, n) == SubSeq(sq, 1, Min(n, Len(sq)))

-----------------------------------------------------------------------------
\* Offset i (from 1) of the file starts an empty physical line
BlankLineAt(i) == file[i] \in {NL, CR} /\ (i = 1 \/ file[i - 1] = NL)

\* The file is made of entry-start lines only, each severity a known level
SingleLineEntries ==
    /\ \A i \in 1..Len(file) :
           /\ ~BlankLineAt(i)
           /\ file[i].hdr => file[i].sev \in Severities
           /\ ~file[i].hdr => file[i].ch \in {"m", "\n", "\r"}
    /\ Len(file) > 0

EntryCount == Len(SelectSeq(file, LAMBDA b : b.hdr))

\* C4 - Forward/reverse agreement: on a file of K single-line entries,
\* amount K and severity CRITICAL, the desc result is the asc result
\* reversed, all four fields equal.
ForwardReverseAgreement ==
    (/\ SingleLineEntries
     /\ query = [amount |-> EntryCount, severity |-> "CRITICAL"]
     /\ order[1] = "asc" /\ Returned(1)
     /\ order[2] = "desc" /\ Returned(2))
        => logs[2] = Reverse(logs[1])

-----------------------------------------------------------------------------
\* The bytes that follow the header of line i when that entry is written
\* as L1, L2, L3, each ended by "\n"
ThreeLineBody(i) ==
    <<Txt(i, "m"), NL, Txt(i + 1, "c"), NL, Txt(i + 2, "c"), NL>>

\* The entry started at offset h (from 1) spans exactly L1, L2, L3
SpansThreeLines(h) ==
    /\ file[h].hdr
    /\ h + 6 <= Len(file)
    /\ SubSeq(file, h + 1, h + 6) = ThreeLineBody(file[h].ts)
    /\ (h + 6 < Len(file) => file[h + 7].hdr)

\* C5 - Continuation law: an accepted entry written as L1, L2, L3 is
\* returned, in either order, with the message L1's remainder, L2, L3, each
\* with its line terminator.
ContinuationLaw ==
    \A r \in Reqs : \A h \in 1..Len(file) : \A i \in 1..Len(logs[r]) :
        (/\ Returned(r)
         /\ SpansThreeLines(h)
         /\ logs[r][i].timestamp = file[h].ts)
            => logs[r][i].message = ThreeLineBody(file[h].ts)

-----------------------------------------------------------------------------
Headers == {file[k] : k \in {j \in 1..Len(file) : file[j].hdr}}

HasOwner(j) == \E h \in Headers : h.ts <= j

\* The entry start that line j follows
Owner(j) ==
    CHOOSE h \in Headers : h.ts <= j /\ \A g \in Headers : g.ts <= j => g.ts <= h.ts

Rejected(h) == h.sev \in Severities /\ ~Passes(h.sev)

\* C6 - Rejected-entry isolation: the continuation lines that follow an
\* entry failing the gate are in no message of the result.
RejectedIsolation ==
    \A r \in Reqs : \A i \in 1..Len(logs[r]) :
        \A k \in 1..Len(logs[r][i].message) :
            LET t == logs[r][i].message[k]
            IN  (Returned(r) /\ t.ch = "c" /\ HasOwner(t.ts))
                    => ~Rejected(Owner(t.ts))

-----------------------------------------------------------------------------
\* C7 - Bounded reverse I/O, scenario B: on the INFO-then-ERROR file,
\* amount 1, severity ERROR, desc reads no offset before the newline that
\* precedes the last entry (offset 2, the ERROR entry starting at 3).
BoundedReverseIO ==
    \A r \in Reqs :
        (/\ file = ScenarioFile
         /\ query = [amount |-> 1, severity |-> "ERROR"]
         /\ order[r] = "desc")
            => \A k \in 1..Len(reads[r]) : reads[r][k] >= 2

-----------------------------------------------------------------------------
StopsScan(it) == it.start /\ it.held >= query.amount

-----------------------------------------------------------------------------
\* C9 - Idempotence: a second call with the same arguments on the same
\* file ends as the first did, with the same entries.
Idempotence ==
    (Finished(1) /\ Finished(2) /\ order[1] = order[2])
        => /\ pc[2] = pc[1]
           /\ err[2] = err[1]
           /\ logs[2] = logs[1]

\* Both calls have returned the same two entries, one with a continuation
IdempotenceWitness ==
    /\ Returned(1) /\ Returned(2)
    /\ order[1] = "desc" /\ order[2] = "desc"
    /\ Len(logs[2]) = 2
    /\ logs[2] = logs[1]
    /\ \E i \in 1..2 : Len(logs[2][i].message) > 1

-----------------------------------------------------------------------------
\* C10 - Empty file: on an existing file of zero bytes (that may be opened)
\* no call raises and every call returns the empty list, in either order.
EmptyFile ==
    \A r \in Reqs :
        (exists /\ readable /\ file = <<>>)
            => /\ pc[r] # "raised"
               /\ logs[r] = <<>>
               /\ Finished(r) => Returned(r)

\* desc on the empty file has returned, having pulled the one empty chunk
EmptyFileWitness ==
    /\ exists /\ readable /\ file = <<>>
    /\ order[1] = "desc"
    /\ Returned(1)
    /\ logs[1] = <<>>
    /\ pulled[1] = <<[start |-> FALSE, held |-> 0]>>

-----------------------------------------------------------------------------
\* C11 - NotFound: when the file does not exist, read_logs fails with
\* FileNotFoundError in either order without building any entry, and get_logs
\* answers 404 "Log file not found"; it answers 404 for no other outcome.
NotFound ==
    \A r \in Reqs :
        /\ ~exists => pc[r] \in {"idle", "pull", "raised"}
        /\ (~exists /\ Finished(r))
               => /\ err[r] = "FileNotFoundError"
                  /\ logs[r] = <<>>
                  /\ response[r] = [status |-> 404,
                                    detail |-> "Log file not found",
                                    body |-> <<>>]
        /\ response[r].status = 404 => (~exists /\ err[r] = "FileNotFoundError")

\* The backward reader was asked for a missing file and the route answered 404
NotFoundWitness ==
    /\ ~exists
    /\ order[1] = "desc"
    /\ pc[1] = "raised"
    /\ err[1] = "FileNotFoundError"
    /\ response[1].status = 404

-----------------------------------------------------------------------------
\* C12 - No detail leak: every failure of read_logs other than not-found is
\* answered with status 500 and the one fixed detail text, which holds no
\* name of an exception.
ExceptionNames == {"FileNotFoundError", "PermissionError", "KeyError", "OSError"}

NoDetailLeak ==
    \A r \in Reqs :
        (pc[r] = "raised" /\ err[r] # "FileNotFoundError")
            => /\ response[r].status = 500
               /\ response[r].detail = ServerErrorDetail
               /\ response[r].detail \notin ExceptionNames
               /\ response[r].body = <<>>

\* An unknown severity token has made read_logs raise KeyError, answered 500
NoDetailLeakWitness ==
    /\ pc[1] = "raised"
    /\ err[1] = "KeyError"
    /\ response[1].status = 500
    /\ \E i \in 1..Len(file) : file[i].hdr /\ file[i].sev = "TRACE"

-----------------------------------------------------------------------------
\* C13 - Handle release: whenever read_logs has returned or raised, the file
\* handle its generator opened is closed.
HandleOpen(r) == gen[r] \in {"loop", "flush"}

HandleRelease == \A r \in Reqs : Finished(r) => ~HandleOpen(r)

-----------------------------------------------------------------------------
\* C14 - Concurrent reads: of two calls on the same unmodified file whose
\* line pulls, byte reads and loop bodies interleave in any way, each ends
\* as it ends when run alone: same entries, same exception, same answer.
ConcurrentReads ==
    \A r \in Reqs :
        Finished(r) => /\ Ended(r) = ReadLogsAlone(r)
                       /\ response[r] = ReadLogsAlone(r).response

\* A single call does end as ReadLogsAlone says (specification Spec)
AloneIsAlone == Finished(1) => Ended(1) = ReadLogsAlone(1)

\* The forward call has returned an entry with its continuation line while
\* the backward call, started before that, is in the middle of the file
ConcurrentReadsWitness ==
    /\ order[1] = "asc" /\ order[2] = "desc"
    /\ Returned(1)
    /\ Len(logs[1]) = 1
    /\ Len(logs[1][1].message) > 2
    /\ pc[2] = "pull" /\ gen[2] = "loop"
    /\ pointer[2] > 0 /\ pointer[2] < Len(file)
    /\ Len(buffer[2]) > 1

-----------------------------------------------------------------------------
\* C15 - Catalog fault isolation: get_available_logs always returns, and what
\* it returns holds the record of every listed file that can be counted,
\* whatever happens to the other files.
Countable(i) == disk[i].error = "none"

Listed(i) ==
    \E j \in 1..Len(catalog.log_files) :
        catalog.log_files[j] = CreateLogFileObject(disk[i])

CatalogFaultIsolation ==
    catalog # NotAsked
        => /\ catalog.status = "returned"
           /\ \A i \in 1..Len(disk) : Countable(i) => Listed(i)

-----------------------------------------------------------------------------
\* C16 - Catalog amount bounds entries: the amount the catalog reports for a
\* file is at least the number of entries read_logs holds, and so returns,
\* for that file, for every amount, severity and order.
CatalogAmountBoundsEntries ==
    \A r \in Reqs :
        (exists /\ readable) => Len(logs[r]) <= GetAmountOfLogs(file)

\* The backward reader has returned as many entries as the file has lines
CatalogAmountWitness ==
    /\ exists /\ readable
    /\ order[1] = "desc"
    /\ Returned(1)
    /\ Len(logs[1]) = 3
    /\ GetAmountOfLogs(file) = 3

-----------------------------------------------------------------------------
\* C17 - Reverse scanner keeps interior newlines: an iteration that reads a
\* newline while the buffer is non-empty and the candidate is not an entry
\* start appends the newline to the buffer.
InteriorNewlineCase(r) ==
    /\ pc[r] = "pull" /\ gen[r] = "loop" /\ order[r] = "desc"
    /\ DescLoopCond(pointer[r])
    /\ ReadByte(file, pointer[r]) = NL
    /\ buffer[r] # <<>>
    /\ ~IsStartOfLogEntry(JoinReversed(buffer[r]))

KeepsInteriorNewlines ==
    [][\A r \in Reqs :
          (InteriorNewlineCase(r) /\ pointer'[r] = pointer[r] - 1)
              => buffer'[r] = Append(buffer[r], NL)]_vars

-----------------------------------------------------------------------------
\* C18 - One chunk per entry: on a file whose first line is an entry start
\* the backward reader yields one chunk per entry-start line, newest first;
\* each chunk is its entry-start line followed by all continuation lines of
\* that entry, and each chunk yielded inside the loop is an entry start.
PhysicalLines == TextLines(file, 0)

IsStartLine(i) == IsStartOfLogEntry(PhysicalLines[i])

StartLineNumbers == {i \in 1..Len(PhysicalLines) : IsStartLine(i)}

\* The k-th entry-start line counted from the end of the file
KthLastStart(k) ==
    CHOOSE i \in StartLineNumbers :
        Cardinality({j \in StartLineNumbers : j >= i}) = k

\* The last physical line of the entry that starts at line i
LastLineOf(i) ==
    CHOOSE e \in i..Len(PhysicalLines) :
        /\ \A j \in (i + 1)..e : ~IsStartLine(j)
        /\ e = Len(PhysicalLines) \/ IsStartLine(e + 1)

RECURSIVE Concat(_, _, _)
Concat(lines, i, e) ==
    IF i > e THEN <<>> ELSE lines[i] \o Concat(lines, i + 1, e)

NotTerminator(b) == b \notin {NL, CR}

\* The characters of the entry that starts at line i, terminators left out
EntryText(i) ==
    SelectSeq(Concat(PhysicalLines, i, LastLineOf(i)), NotTerminator)

OneChunkPerEntry ==
    \A r \in Reqs :
        (/\ exists /\ readable /\ order[r] = "desc"
         /\ Len(PhysicalLines) > 0 /\ IsStartLine(1))
            => /\ pc[r] = "body"
                   => /\ Len(pulled[r]) <= Cardinality(StartLineNumbers)
                      /\ SelectSeq(cur[r], NotTerminator)
                             = EntryText(KthLastStart(Len(pulled[r])))
                      /\ gen[r] = "loop" => IsStartOfLogEntry(cur[r])
               /\ (Returned(r) /\ UnderCap(logs[r], query.amount))
                   => Len(pulled[r]) = Cardinality(StartLineNumbers)

-----------------------------------------------------------------------------
\* C19 - Reverse scanner on an empty file: on a file of zero bytes the
\* backward reader yields nothing, and no read at end of file puts an empty
\* element into its buffer.
HoldsEmptyBytes(r) == \E i \in 1..Len(buffer[r]) : buffer[r][i] = EmptyBytes

EmptyFileScan ==
    \A r \in Reqs :
        (exists /\ readable /\ file = <<>> /\ order[r] = "desc")
            => /\ pulled[r] = <<>>
               /\ ~HoldsEmptyBytes(r)
               /\ \A i \in 1..Len(reads[r]) : reads[r][i] < Len(file)

-----------------------------------------------------------------------------
\* C20 - Reverse scanner termination: a call in order desc that keeps
\* running ends; each iteration of the backward reader lowers the cursor by
\* exactly one, no offset is read twice, and the loop is left, for the final
\* flush or the end of the sequence, only with the cursor below offset 0.
InDescLoop(r) ==
    exists /\ readable /\ order[r] = "desc" /\ pc[r] = "pull" /\ gen[r] = "loop"

NoOffsetReadTwice(r) ==
    \A i, j \in 1..Len(reads[r]) : i # j => reads[r][i] # reads[r][j]

DescIteration(r) ==
    (InDescLoop(r) /\ (pointer'[r] # pointer[r] \/ reads'[r] # reads[r]))
        => /\ pointer'[r] = pointer[r] - 1
           /\ reads'[r] = Append(reads[r], pointer[r])

DescLoopExit(r) ==
    (InDescLoop(r) /\ gen'[r] # "loop") => (pointer[r] < 0 /\ pointer'[r] < 0)

ReverseTermination ==
    /\ (order[1] = "desc") ~> Finished(1)
    /\ [](\A r \in Reqs : NoOffsetReadTwice(r) /\ pointer[r] >= -1)
    /\ [](\A r \in Reqs : (Returned(r) /\ order[r] = "desc"
                               /\ UnderCap(logs[r], query.amount))
                              => pointer[r] < 0)
    /\ [][\A r \in Reqs : DescIteration(r) /\ DescLoopExit(r)]_vars

\* The backward reader has read a three-line file down to offset 0 and
\* ended, the call having returned under the cap
ReverseTerminationWitness ==
    /\ exists /\ readable
    /\ order[1] = "desc"
    /\ Returned(1)
    /\ UnderCap(logs[1], query.amount)
    /\ GetAmountOfLogs(file) = 3
    /\ Len(reads[1]) = Len(file) + 1
    /\ pointer[1] = -1

-----------------------------------------------------------------------------
\* C21 - ID generation retry bound: a call of sql_func_generate_id generates
\* at most 5 candidates, ends with ValueError when all of them collide, and
\* returns only a candidate that the existence check found absent.
ReturnsAbsentOnly ==
    (sqlpc = "generating" /\ sqlout'.status \in {"added", "IntegrityError"})
        => ExistsCriteria(sqlout'.id, templates) = FALSE

RaisesWhenSpent ==
    (sqlpc = "generating" /\ sqlout'.status = "ValueError")
        => (generated' = MaxAttempts /\ ExistsCriteria(random_string', templates))

RetryBound ==
    /\ [](generated <= MaxAttempts)
    /\ [][ReturnsAbsentOnly /\ RaisesWhenSpent]_vars

\* What the code does: one candidate more
RetryBoundPlusOne ==
    /\ [](generated <= MaxAttempts + 1)
    /\ [][ReturnsAbsentOnly]_vars
    /\ [][(sqlpc = "generating" /\ sqlout'.status = "ValueError")
              => generated' = MaxAttempts + 1]_vars

-----------------------------------------------------------------------------
\* C22 - User cleanup on questionnaire deletion: a user is deleted only when
\* no remaining active questionnaire names them as student or as teacher,
\* and every active questionnaire has its student and its teacher in the
\* users table.
DeletedUsersAreUnused ==
    \A u \in users \ users' :
        \A q \in questionnaires' : q.student_id # u /\ q.teacher_id # u

UserCleanup ==
    /\ [](Dangling(questionnaires, users) = {})
    /\ [][DeletedUsersAreUnused]_vars

-----------------------------------------------------------------------------
\* C23 - Generated ids are unique per table: the id sql_func_generate_id
\* returns for a new row is the id of no row of the table the row goes to,
\* for active_questionnaires as for question_templates.
TableIds(table) ==
    IF table = "question_templates" THEN templates
    ELSE {q.id : q \in questionnaires}

GeneratedIdsUnique ==
    [][(sqlpc = "generating" /\ sqlpc' = "idle"
            /\ sqlout'.status # "ValueError")
          => sqlout'.id \notin TableIds(pending.table)]_vars

\* The same for the rows of question_templates alone
TemplateIdsUnique ==
    [][(sqlpc = "generating" /\ sqlpc' = "idle"
            /\ sqlout'.status # "ValueError"
            /\ pending.table = "question_templates")
          => sqlout'.id \notin TableIds(pending.table)]_vars

-----------------------------------------------------------------------------
\* C24 - Orphan lines: no character of a line that precedes the first
\* entry-start line of the file is in the message of an entry of the
\* result, in either order, whatever the amount and severity.
IsOrphan(b) == b.ts > 0 /\ ~HasOwner(b.ts)

HoldsOrphan(r) ==
    \E i \in 1..Len(logs[r]) :
        \E k \in 1..Len(logs[r][i].message) : IsOrphan(logs[r][i].message[k])

OrphansExcluded == \A r \in Reqs : ~HoldsOrphan(r)

\* The same, of the forward order alone
OrphansExcludedAsc == \A r \in Reqs : order[r] = "asc" => ~HoldsOrphan(r)

-----------------------------------------------------------------------------
\* C25 - Unknown severity: an entry start whose severity token is none of
\* the five levels, met under the cap, makes read_logs raise the lookup
\* error, which the route answers with the generic 500 and no entries; met
\* at the cap it ends the scan, and read_logs returns what it holds.
UnknownSeverityCase(r) ==
    /\ pc[r] = "body"
    /\ ~IsBlank(cur[r])
    /\ ParseLogLine(cur[r]).matched
    /\ ParseLogLine(cur[r]).severity \notin Severities

UnknownSeverityStep(r) ==
    (UnknownSeverityCase(r) /\ pc'[r] # pc[r])
        => /\ logs'[r] = logs[r]
           /\ IF Len(logs[r]) < query.amount
              THEN /\ pc'[r] = "raised"
                   /\ err'[r] = "KeyError"
                   /\ response'[r] = [status |-> 500,
                                      detail |-> ServerErrorDetail,
                                      body |-> <<>>]
              ELSE /\ pc'[r] = "done"
                   /\ err'[r] = "none"
                   /\ response'[r] = [status |-> 200, detail |-> "",
                                      body |-> logs[r]]

UnknownSeverity ==
    /\ [][\A r \in Reqs : UnknownSeverityStep(r)]_vars
    /\ [](\A r \in Reqs : err[r] = "KeyError" => (pc[r] = "raised"
                                                     /\ response[r].body = <<>>))

\* An entry had been taken when the unknown token was met under the cap:
\* the call has raised and the answer holds no entry
UnknownSeverityWitness ==
    /\ pc[1] = "raised"
    /\ err[1] = "KeyError"
    /\ Len(logs[1]) = 1
    /\ query.amount = 2
    /\ response[1].status = 500
    /\ response[1].body = <<>>

\* The unknown token was met at the cap: the call has returned its entry
UnknownSeverityAtCap ==
    /\ ParseLogLine(cur[1]).severity = "TRACE"
    /\ pc[1] = "done"
    /\ Len(logs[1]) = 1
    /\ query.amount = 1
    /\ response[1].status = 200

=============================================================================
